---- MODULE Spec2Model ----
(***************************************************************************)
(* A model of pyisy.events.EventStream (src/pyisy/events.py): the event    *)
(* stream session, its frame reader, its heartbeat check and its watch     *)
(* thread, together with the socket and the peer it talks to.              *)
(*                                                                         *)
(* Bytes are modelled as one-element strings; "CR" and "LF" stand for the  *)
(* bytes \r and \n.  A message body is a sequence of such elements; the    *)
(* XML fragments the router looks at are abbreviated to one element each.  *)
(***************************************************************************)
EXTENDS Integers, Sequences, FiniteSets, TLC

\* ------------------------------------------------------------------ bounds
\* Frames per stream the peer sends.
MaxFrames == 2
\* Clock advances in one behaviour.
MaxTicks == 3
\* Bytes the socket holds unread before the peer's send blocks (SpecFrame).
MaxWire == 2
\* Cap of the ghost counter of on-lost callback invocations.
MaxLost == 2
\* Tags a trigger body carries besides its control code.
MaxTags == 2
\* Values a watched status takes: 0..MaxValue.
MaxValue == 2
\* Listeners subscribed to each event emitter.
NumListeners == 2
\* Entries an emitter's notification log holds.
MaxNotes == 4
\* Commands a node sends in one behaviour.
MaxCmds == 2

\* --------------------------------------------------------------- constants
\* None for _event_content_length (events.py:48) and _lasthb (events.py:41).
NoLength == -1
NoTime == -1
\* ATTR_STREAM_ID absent from self.data.
NoSid == "absent"
\* recv(SOCKET_BUFFER_SIZE): pyisy.constants.SOCKET_BUFFER_SIZE.  One recv takes
\* at most this many bytes; every burst of the model's peer is shorter.
SOCKET_BUFFER_SIZE == 4096
\* len(b"\r\n\r\n")
HTTP_HEADER_BODY_SEPERATOR_LEN == 4
\* timedelta.seconds is the seconds component of a normalised timedelta.
DaySeconds == 86400

HTTP_HEADER_SEPERATOR == <<"CR", "LF">>
HTTP_HEADER_BODY_SEPERATOR == <<"CR", "LF", "CR", "LF">>

\* -------------------------------------------------------- byte-string helpers
Min(a, b) == IF a < b THEN a ELSE b

\* Python s[a:b] for 0 <= a, 0 <= b (0-based, half open, clipped).
Slice(s, a, b) == SubSeq(s, a + 1, Min(b, Len(s)))

MatchAt(s, sep, at) ==
    /\ at + Len(sep) - 1 <= Len(s)
    /\ \A m \in 1..Len(sep) : s[at + m - 1] = sep[m]

\* bytes.find(sep): the 0-based index of the first occurrence, or -1.
Find(s, sep) ==
    IF \E f \in 1..Len(s) : MatchAt(s, sep, f)
    THEN (CHOOSE f \in 1..Len(s) :
            MatchAt(s, sep, f) /\ \A g \in 1..(f - 1) : ~MatchAt(s, sep, g)) - 1
    ELSE 0 - 1

\* The first occurrence of sep in s at 1-based position i or later; 0 if none.
NextMatch(s, sep, from) ==
    IF \E j \in from..Len(s) : MatchAt(s, sep, j)
    THEN CHOOSE j \in from..Len(s) :
            MatchAt(s, sep, j) /\ \A k \in from..(j - 1) : ~MatchAt(s, sep, k)
    ELSE 0

\* bytes.split(sep): piece[i] is the split of s from its 1-based position i on.
Split(s, sep) ==
    LET piece[p \in 1..(Len(s) + 1)] ==
            IF NextMatch(s, sep, p) = 0 THEN <<SubSeq(s, p, Len(s))>>
            ELSE <<SubSeq(s, p, NextMatch(s, sep, p) - 1)>>
                    \o piece[NextMatch(s, sep, p) + Len(sep)]
    IN  piece[1]

Whitespace == {" ", "CR", "LF", "TAB"}

\* bytes.strip()
RECURSIVE LStrip(_)
LStrip(s) == IF s # <<>> /\ Head(s) \in Whitespace THEN LStrip(Tail(s)) ELSE s
RECURSIVE RStrip(_)
RStrip(s) ==
    IF s # <<>> /\ s[Len(s)] \in Whitespace THEN RStrip(SubSeq(s, 1, Len(s) - 1)) ELSE s
Strip(s) == RStrip(LStrip(s))

\* bytes.lower(), on the letters the model's frames use.
LowerByte(b) ==
    CASE b = "C" -> "c" [] b = "L" -> "l" [] b = "H" -> "h" [] b = "P" -> "p"
      [] b = "A" -> "a" [] b = "B" -> "b" [] b = "X" -> "x" [] b = "E" -> "e"
      [] b = "O" -> "o"
      [] OTHER -> b
Lower(s) == [lo \in 1..Len(s) |-> LowerByte(s[lo])]

Digits == {"0", "1", "2", "3", "4", "5", "6", "7", "8", "9"}
DigitVal(d) ==
    CASE d = "0" -> 0 [] d = "1" -> 1 [] d = "2" -> 2 [] d = "3" -> 3 [] d = "4" -> 4
      [] d = "5" -> 5 [] d = "6" -> 6 [] d = "7" -> 7 [] d = "8" -> 8 [] d = "9" -> 9

\* int(x) on a string of decimal digits; anything else raises ValueError.
IsInt(s) == s # <<>> /\ \A d \in 1..Len(s) : s[d] \in Digits
RECURSIVE IntOf(_)
IntOf(s) == IF s = <<>> THEN 0 ELSE 10 * IntOf(SubSeq(s, 1, Len(s) - 1)) + DigitVal(s[Len(s)])

ContentLengthName == <<"c", "o", "n", "t", "e", "n", "t", "-", "l", "e", "n", "g", "t", "h">>

\* -------------------------------------------------------- _parse_headers
\* header.split(b":", 1): the two parts, when the line has a colon
HasColon(header) == Find(header, <<":">>) >= 0
HeaderName(header) == Slice(header, 0, Find(header, <<":">>))
HeaderValue(header) == Slice(header, Find(header, <<":">>) + 1, Len(header))

\* The loop over the header lines: after[i] is [err, cl] after i lines.  err is
\* the ValueError of unpacking a line without ":" or of int() on something that
\* is no number; it ends the loop.
HeaderLoop(hs, cl) ==
    LET after[h \in 0..Len(hs)] ==
            IF h = 0 THEN [err |-> FALSE, cl |-> cl]
            ELSE IF after[h - 1].err THEN after[h - 1]
            ELSE IF ~HasColon(hs[h]) THEN [err |-> TRUE, cl |-> after[h - 1].cl]
            ELSE IF Lower(Strip(HeaderName(hs[h]))) # ContentLengthName THEN after[h - 1]
            ELSE IF ~IsInt(Strip(HeaderValue(hs[h])))
            THEN [err |-> TRUE, cl |-> after[h - 1].cl]
            ELSE [err |-> FALSE, cl |-> IntOf(Strip(HeaderValue(hs[h])))]
    IN  after[Len(hs)]

\* headers.split(HTTP_HEADER_SEPERATOR)[1:]
HeaderLines(headers) == Tail(Split(headers, HTTP_HEADER_SEPERATOR))

\* "not self._event_content_length": None and 0 are both falsy.
Falsy(cl) == cl = NoLength \/ cl = 0

\* _parse_headers with line 196 leaving the separator in the buffer
parse_headers_keeps_separator(buf, cl, seperator_position) ==
    LET headers == Slice(buf, 0, seperator_position)
        rest == Slice(buf, seperator_position, Len(buf))
        r == HeaderLoop(HeaderLines(headers), cl)
    IN  [err |-> r.err \/ Falsy(r.cl), buf |-> rest, cl |-> r.cl]

\* _parse_headers(seperator_position): [err, buf, cl]
parse_headers(buf, cl, seperator_position) ==
    LET headers == Slice(buf, 0, seperator_position)
        rest == Slice(buf, seperator_position + HTTP_HEADER_BODY_SEPERATOR_LEN, Len(buf))
        r == HeaderLoop(HeaderLines(headers), cl)
    IN  [err |-> r.err \/ Falsy(r.cl), buf |-> rest, cl |-> r.cl]

\* Lines 162-191 of _read_one_response_or_timeout, after the receive loop has
\* ended: [outcome, buf, cl, body] with outcome "raise" (ValueError),
\* "continue" (poll again) or "return" (a body).
ParseBuffer(buf, cl) ==
    LET pos == Find(buf, HTTP_HEADER_BODY_SEPERATOR)
        h == IF Falsy(cl) /\ pos >= 0 THEN parse_headers(buf, cl, pos)
             ELSE [err |-> FALSE, buf |-> buf, cl |-> cl]
    IN  IF Falsy(cl) /\ pos < 0
        THEN [outcome |-> "continue", buf |-> buf, cl |-> cl, body |-> <<>>]
        ELSE IF h.err
        THEN [outcome |-> "raise", buf |-> h.buf, cl |-> h.cl, body |-> <<>>]
        ELSE IF Len(h.buf) < h.cl
        THEN [outcome |-> "continue", buf |-> h.buf, cl |-> h.cl, body |-> <<>>]
        ELSE [outcome |-> "return", buf |-> Slice(h.buf, h.cl, Len(h.buf)),
              cl |-> NoLength, body |-> Slice(h.buf, 0, h.cl)]

\* ---------------------------------------------------- frames and messages
CRLF == HTTP_HEADER_SEPERATOR

\* str(n) for 0 <= n < 100
DigitOf(n) == CHOOSE d \in Digits : DigitVal(d) = n
DigitsOf(n) == IF n < 10 THEN <<DigitOf(n)>> ELSE <<DigitOf(n \div 10), DigitOf(n % 10)>>

StartLine == <<"P">>
ContentLengthHeader(n) ==
    <<"C", "o", "n", "t", "e", "n", "t", "-", "L", "e", "n", "g", "t", "h", ":", " ">>
        \o DigitsOf(n)

\* A frame as the controller sends it: start line, headers, blank line, body.
\* [raw |-> the bytes, body |-> the body they carry]
StdFrame(body) ==
    [raw |-> StartLine \o CRLF \o ContentLengthHeader(Len(body))
                \o HTTP_HEADER_BODY_SEPERATOR \o body,
     body |-> body]

\* lower-case header name, no space after the colon, another header before it
LowerFrame(body) ==
    [raw |-> StartLine \o CRLF \o <<"H", ":", "x">> \o CRLF
                \o ContentLengthName \o <<":">> \o DigitsOf(Len(body))
                \o HTTP_HEADER_BODY_SEPERATOR \o body,
     body |-> body]

\* the header block is the content-length line alone (no start line)
BareFrame(body) ==
    [raw |-> ContentLengthHeader(Len(body)) \o HTTP_HEADER_BODY_SEPERATOR \o body,
     body |-> body]

\* Message bodies.  "<E" ... "E>" stands for a well-formed <Event> document.
BodyHb1 == <<"<E", "_0", "1", "E>">>
BodyHb30 == <<"<E", "_0", "3", "0", "E>">>
BodySid == <<"<E", "sid=", "s1", "E>">>
BodyStatus == <<"<E", "ST", "E>">>
BodyHbBad == <<"<E", "_0", "x", "E>">>

BodyMalformed == <<"<E", "sid=", "s1", "_0", "1", "ST">>
BodyTrigVar == <<"<E", "_1", "<var", "E>">>
BodyTrigVarId == <<"<E", "_1", "<id>", "<node>", "[", "<var", "E>">>
BodyTrigId == <<"<E", "_1", "<id>", "E>">>
BodyTrigNode == <<"<E", "_1", "<node>", "[", "E>">>
BodyTrigBare == <<"<E", "_1", "E>">>
BodyControl == <<"<E", "DON", "E>">>
BodyOther == <<"<E", "_3", "E>">>

\* bodies that carry the stream-id marker together with a control code, tags
\* beside a control code that does not look at them, or nothing at all
BodySidStatus == <<"<E", "sid=", "s1", "ST", "E>">>
BodySid2 == <<"<E", "sid=", "s2", "E>">>
BodySidHb == <<"<E", "sid=", "s1", "_0", "1", "E>">>
BodySidHbBad == <<"<E", "sid=", "s1", "_0", "x", "E>">>
BodyNoControl == <<"<E", "E>">>
BodyStatusVar == <<"<E", "ST", "<var", "E>">>
BodyControlId == <<"<E", "DON", "<id>", "E>">>
BodyTrigNodeOnly == <<"<E", "_1", "<node>", "E>">>
BodyOtherVar == <<"<E", "_3", "<var", "E>">>

\* a header block that has no content-length line
NoLengthFrame ==
    [raw |-> StartLine \o CRLF \o <<"H", ":", "x">> \o HTTP_HEADER_BODY_SEPERATOR,
     body |-> <<>>]
\* the start of a frame the peer never completes: no separator yet; part of the body
TruncatedHeader == [raw |-> StartLine \o CRLF \o ContentLengthHeader(2), body |-> <<>>]
TruncatedBody ==
    [raw |-> StartLine \o CRLF \o ContentLengthHeader(2) \o HTTP_HEADER_BODY_SEPERATOR
                \o <<"A">>,
     body |-> <<>>]

\* The framing cases: a plain frame; a lower-case header after another header,
\* with a body that itself holds the separator; an empty body; a header block
\* that is the content-length line alone.
FrameCatalog ==
    { StdFrame(<<"A", "B">>), LowerFrame(<<"CR", "LF", "CR", "LF">>), StdFrame(<<>>),
      BareFrame(<<"H", "E", "L", "L", "O">>) }

SeqsUpTo(S, n) == UNION { [1..k -> S] : k \in 0..n }

RECURSIVE Concat(_)
Concat(fs) == IF fs = <<>> THEN <<>> ELSE Head(fs).raw \o Concat(Tail(fs))
BodiesOf(fs) == [i \in 1..Len(fs) |-> fs[i].body]

\* ------------------------------------------------- XML helpers (helpers.py)
ControlCodes == {"_0", "_1", "_3", "ST", "DON"}
\* the control codes whose first character is "_"
UnderscoreCodes == {"_0", "_1", "_3"}
PROP_STATUS == "ST"
\* f"<{ATTR_VAR}", f"<{ATTR_ID}>", f"<{TAG_NODE}>" and "[" as they occur in a body
VarTag == "<var"
IdTag == "<id>"
NodeTag == "<node>"
Bracket == "["

\* minidom.parseString succeeds
WellFormed(msg) == Len(msg) >= 2 /\ msg[1] = "<E" /\ msg[Len(msg)] = "E>"
\* substring test on the raw text: "x in msg"
Contains(msg, x) == \E i \in 1..Len(msg) : msg[i] = x
\* value_from_xml(xmldoc, ATTR_CONTROL); "" when there is none
ControlOf(msg) ==
    IF \E i \in 1..Len(msg) : msg[i] \in ControlCodes
    THEN msg[CHOOSE i \in 1..Len(msg) :
                msg[i] \in ControlCodes /\ \A j \in 1..(i - 1) : msg[j] \notin ControlCodes]
    ELSE ""
\* value_from_xml(xmldoc, ATTR_ACTION), as text
ActionOf(msg) == SelectSeq(msg, LAMBDA x : x \in Digits \cup {"x"})
\* attr_from_xml(xmldoc, "Event", ATTR_STREAM_ID)
SidOf(msg) ==
    IF \E i \in 1..(Len(msg) - 1) : msg[i] = "sid="
    THEN msg[(CHOOSE i \in 1..(Len(msg) - 1) : msg[i] = "sid=") + 1]
    ELSE "None"

\* ------------------------------------------------------------------ state
VARIABLES
    running,               \* self._running
    subscribed,            \* self._subscribed
    connected,             \* self._connected
    writer,                \* self._writer is not None
    lasthb,                \* self._lasthb (NoTime: None)
    hbwait,                \* self._hbwait
    sid,                   \* self.data[ATTR_STREAM_ID] (NoSid: key absent)
    tls,                   \* self.data.get("tls") is set
    event_buffer,          \* self._event_buffer
    event_content_length,  \* self._event_content_length (NoLength: None)
    sock,                  \* self.socket: "fresh", "connected" or "closed" (close() called)
    pc,                    \* where the watch thread is ("none": never started)
    data,                  \* the value the read step returned to watch()
    raised,                \* the caller's last operation raised
    script,                \* the frames the peer sends in this behaviour
    stream,                \* bytes of them the peer has not sent yet
    wire,                  \* bytes received by the socket, not yet read
    peerClosed,            \* the peer has closed its end
    sent,                  \* payloads written to the socket, in order
    lostCalls,             \* invocations of the on-lost callback (capped)
    bodies,                \* bodies the read step has returned, in order
    calls,                 \* collaborator methods the router has invoked, in order
    now,                   \* the clock, in seconds
    ticks,                 \* clock advances so far
    node_status,           \* NodeBase._status
    node_events,           \* what NodeBase.status_events delivered, in order
    var_status,            \* Variable._status
    var_init,              \* Variable._init
    var_events,            \* what Variable.status_events delivered, in order
    cmds,                  \* commands the node requested of the controller, in order
    ret                    \* the last set_on_level call: its argument and its result

session == <<running, subscribed, connected, writer, sock, sent, lostCalls, raised>>
reader == <<event_buffer, event_content_length, data, bodies>>
heart == <<lasthb, hbwait>>
peer == <<script, stream, wire, peerClosed>>
clock == <<now, ticks>>
entities == <<node_status, node_events, var_status, var_init, var_events, cmds, ret>>
vars == <<session, reader, heart, peer, clock, sid, tls, pc, calls, entities>>

\* The fields the session's methods read and write, as one record.
Session ==
    [running |-> running, subscribed |-> subscribed, connected |-> connected,
     writer |-> writer, sock |-> sock, sent |-> sent, lost |-> lostCalls,
     raised |-> FALSE]

Install(s) ==
    /\ running' = s.running
    /\ subscribed' = s.subscribed
    /\ connected' = s.connected
    /\ writer' = s.writer
    /\ sock' = s.sock
    /\ sent' = s.sent
    /\ lostCalls' = s.lost
    /\ raised' = s.raised

\* strings.SUB_MSG, strings.RESUB_MSG, strings.UNSUB_MSG after _create_message
SUB_MSG == [kind |-> "SUB", sid |-> NoSid]
RESUB_MSG(id) == [kind |-> "RESUB", sid |-> id]
UNSUB_MSG == [kind |-> "UNSUB", sid |-> NoSid]

on_lost_function(s) == [s EXCEPT !.lost = Min(@ + 1, MaxLost)]

\* write(msg)
write(s, msg) ==
    IF ~s.writer THEN [s EXCEPT !.raised = TRUE]
    ELSE [s EXCEPT !.sent = Append(@, msg)]

\* connect(); ok: the network lets socket.connect succeed.  A socket that has
\* been connected cannot be connected again, closed by disconnect() or not: a
\* plain socket raises OSError (EISCONN), which connect() handles; an SSLSocket
\* raises ValueError ("attempt to connect already-connected SSLSocket"), which
\* connect() does not handle, so that it reaches the caller.
connect(s, ok) ==
    IF ~s.connected
    THEN IF s.sock = "fresh"
         THEN IF ok
              THEN [s EXCEPT !.sock = "connected", !.writer = TRUE, !.connected = TRUE]
              ELSE on_lost_function(s)
         ELSE IF tls THEN [s EXCEPT !.raised = TRUE] ELSE on_lost_function(s)
    ELSE s

\* disconnect() without line 237: the running flag survives
disconnect_keeps_running(s) ==
    IF s.connected
    THEN [s EXCEPT !.sock = "closed", !.connected = FALSE, !.subscribed = FALSE]
    ELSE s

\* disconnect()
disconnect(s) ==
    IF s.connected
    THEN [s EXCEPT !.sock = "closed", !.connected = FALSE, !.subscribed = FALSE,
                   !.running = FALSE]
    ELSE s

\* subscribe() without the test of line 242: the fresh payload, always
subscribe_always_fresh(s, id) ==
    IF ~s.subscribed /\ s.connected
    THEN LET w == write(s, SUB_MSG)
         IN  IF w.raised THEN w ELSE [w EXCEPT !.subscribed = TRUE]
    ELSE s

\* subscribe(); id: self.data's stream id
subscribe(s, id) ==
    IF ~s.subscribed /\ s.connected
    THEN LET w == write(s, IF id = NoSid THEN SUB_MSG ELSE RESUB_MSG(id))
         IN  IF w.raised THEN w ELSE [w EXCEPT !.subscribed = TRUE]
    ELSE s

\* unsubscribe() without the test of line 252
unsubscribe_unguarded(s) ==
    LET w == write(s, UNSUB_MSG)
    IN  IF w.raised THEN w ELSE disconnect([w EXCEPT !.subscribed = FALSE])

\* unsubscribe()
unsubscribe(s) ==
    IF s.subscribed /\ s.connected
    THEN LET w == write(s, UNSUB_MSG)
         IN  IF w.raised THEN w ELSE disconnect([w EXCEPT !.subscribed = FALSE])
    ELSE s

\* _lost_connect() without lines 276-277: the callback is not invoked
lost_connect_silent(s) == disconnect(s)

\* _lost_connect()
lost_connect(s) == on_lost_function(disconnect(s))

\* Thread.isAlive() of self._thread (Python 3.6 to 3.8, which have isAlive)
ThreadAlive == pc \notin {"none", "exit", "crashed"}

\* the stop branch without line 137: no disconnect() after unsubscribe()
stop_updates_no_disconnect(s) == unsubscribe([s EXCEPT !.running = FALSE])

\* the stop branch with _lost_connect() in place of line 137's disconnect()
stop_updates_reports_loss(s) ==
    LET u == unsubscribe([s EXCEPT !.running = FALSE])
    IN  IF u.raised THEN u ELSE lost_connect(u)

\* the running setter, val = False (and val = True while the thread is alive)
stop_updates(s) ==
    LET u == unsubscribe([s EXCEPT !.running = FALSE])
    IN  IF u.raised THEN u ELSE disconnect(u)

\* the start branch without the test of connect()'s result at line 127
start_updates_unchecked(s, id, ok) ==
    LET c == connect(s, ok)
        sub == subscribe(c, id)
    IN  IF c.raised THEN [s |-> c, spawn |-> FALSE]
        ELSE IF sub.raised THEN [s |-> sub, spawn |-> FALSE]
        ELSE [s |-> [sub EXCEPT !.running = TRUE], spawn |-> TRUE]

\* the running setter, val = True, thread not alive: [s, spawn]
start_updates(s, id, ok) ==
    LET c == connect(s, ok)
        sub == subscribe(c, id)
    IN  IF c.raised \/ ~c.connected THEN [s |-> c, spawn |-> FALSE]
        ELSE IF sub.raised THEN [s |-> sub, spawn |-> FALSE]
        ELSE [s |-> [sub EXCEPT !.running = TRUE], spawn |-> TRUE]

\* heartbeat_time with the clock's reading in place of line 268's 0.0
heartbeat_time_unset_is_now ==
    IF lasthb # NoTime THEN (now - lasthb) % DaySeconds ELSE now % DaySeconds

\* heartbeat_time
heartbeat_time == IF lasthb # NoTime THEN (now - lasthb) % DaySeconds ELSE 0

\* no collaborator invoked
NoCall == "none"

\* _route_message(msg) without the try/except of lines 76-80
route_message_unparsed(msg) ==
    LET id == IF Contains(msg, "sid=") /\ sid = NoSid THEN SidOf(msg) ELSE sid
        cntrl == ControlOf(msg)
        same == [raise |-> FALSE, lasthb |-> lasthb, hbwait |-> hbwait, sid |-> id,
                 call |-> NoCall]
    IN  IF cntrl = "" THEN same
        ELSE IF cntrl = "_0"
        THEN IF IsInt(ActionOf(msg))
             THEN [same EXCEPT !.lasthb = now, !.hbwait = IntOf(ActionOf(msg))]
             ELSE [same EXCEPT !.lasthb = now, !.raise = TRUE]
        ELSE IF cntrl = PROP_STATUS
        THEN [same EXCEPT !.call = "nodes.update_received"]
        ELSE IF cntrl \notin UnderscoreCodes
        THEN [same EXCEPT !.call = "nodes.control_message_received"]
        ELSE IF cntrl = "_1"
        THEN IF Contains(msg, VarTag)
             THEN [same EXCEPT !.call = "variables.update_received"]
             ELSE IF Contains(msg, IdTag)
             THEN [same EXCEPT !.call = "programs.update_received"]
             ELSE IF Contains(msg, NodeTag) /\ Contains(msg, Bracket) THEN same
             ELSE [same EXCEPT !.call = "programs.update"]
        ELSE same

\* _route_message(msg) with the tests of lines 100 and 102 in the other order
route_message_id_first(msg) ==
    LET id == IF Contains(msg, "sid=") /\ sid = NoSid THEN SidOf(msg) ELSE sid
        cntrl == ControlOf(msg)
        same == [raise |-> FALSE, lasthb |-> lasthb, hbwait |-> hbwait, sid |-> id,
                 call |-> NoCall]
    IN  IF ~WellFormed(msg) THEN [same EXCEPT !.sid = sid]
        ELSE IF cntrl = "" THEN same
        ELSE IF cntrl = "_0"
        THEN IF IsInt(ActionOf(msg))
             THEN [same EXCEPT !.lasthb = now, !.hbwait = IntOf(ActionOf(msg))]
             ELSE [same EXCEPT !.lasthb = now, !.raise = TRUE]
        ELSE IF cntrl = PROP_STATUS
        THEN [same EXCEPT !.call = "nodes.update_received"]
        ELSE IF cntrl \notin UnderscoreCodes
        THEN [same EXCEPT !.call = "nodes.control_message_received"]
        ELSE IF cntrl = "_1"
        THEN IF Contains(msg, IdTag)
             THEN [same EXCEPT !.call = "programs.update_received"]
             ELSE IF Contains(msg, VarTag)
             THEN [same EXCEPT !.call = "variables.update_received"]
             ELSE IF Contains(msg, NodeTag) /\ Contains(msg, Bracket) THEN same
             ELSE [same EXCEPT !.call = "programs.update"]
        ELSE same

\* _route_message(msg) without the "not in self.data" test of line 84
route_message_recapture(msg) ==
    LET id == IF Contains(msg, "sid=") THEN SidOf(msg) ELSE sid
        cntrl == ControlOf(msg)
        same == [raise |-> FALSE, lasthb |-> lasthb, hbwait |-> hbwait, sid |-> id,
                 call |-> NoCall]
    IN  IF ~WellFormed(msg) THEN [same EXCEPT !.sid = sid]
        ELSE IF cntrl = "" THEN same
        ELSE IF cntrl = "_0"
        THEN IF IsInt(ActionOf(msg))
             THEN [same EXCEPT !.lasthb = now, !.hbwait = IntOf(ActionOf(msg))]
             ELSE [same EXCEPT !.lasthb = now, !.raise = TRUE]
        ELSE IF cntrl = PROP_STATUS
        THEN [same EXCEPT !.call = "nodes.update_received"]
        ELSE IF cntrl \notin UnderscoreCodes
        THEN [same EXCEPT !.call = "nodes.control_message_received"]
        ELSE IF cntrl = "_1"
        THEN IF Contains(msg, VarTag)
             THEN [same EXCEPT !.call = "variables.update_received"]
             ELSE IF Contains(msg, IdTag)
             THEN [same EXCEPT !.call = "programs.update_received"]
             ELSE IF Contains(msg, NodeTag) /\ Contains(msg, Bracket) THEN same
             ELSE [same EXCEPT !.call = "programs.update"]
        ELSE same

\* _route_message(msg) without the bracket test of line 104
route_message_node_unbracketed(msg) ==
    LET id == IF Contains(msg, "sid=") /\ sid = NoSid THEN SidOf(msg) ELSE sid
        cntrl == ControlOf(msg)
        same == [raise |-> FALSE, lasthb |-> lasthb, hbwait |-> hbwait, sid |-> id,
                 call |-> NoCall]
    IN  IF ~WellFormed(msg) THEN [same EXCEPT !.sid = sid]
        ELSE IF cntrl = "" THEN same
        ELSE IF cntrl = "_0"
        THEN IF IsInt(ActionOf(msg))
             THEN [same EXCEPT !.lasthb = now, !.hbwait = IntOf(ActionOf(msg))]
             ELSE [same EXCEPT !.lasthb = now, !.raise = TRUE]
        ELSE IF cntrl = PROP_STATUS
        THEN [same EXCEPT !.call = "nodes.update_received"]
        ELSE IF cntrl \notin UnderscoreCodes
        THEN [same EXCEPT !.call = "nodes.control_message_received"]
        ELSE IF cntrl = "_1"
        THEN IF Contains(msg, VarTag)
             THEN [same EXCEPT !.call = "variables.update_received"]
             ELSE IF Contains(msg, IdTag)
             THEN [same EXCEPT !.call = "programs.update_received"]
             ELSE IF Contains(msg, NodeTag) THEN same
             ELSE [same EXCEPT !.call = "programs.update"]
        ELSE same

\* _route_message(msg) without the branch of lines 95-96
route_message_status_as_control(msg) ==
    LET id == IF Contains(msg, "sid=") /\ sid = NoSid THEN SidOf(msg) ELSE sid
        cntrl == ControlOf(msg)
        same == [raise |-> FALSE, lasthb |-> lasthb, hbwait |-> hbwait, sid |-> id,
                 call |-> NoCall]
    IN  IF ~WellFormed(msg) THEN [same EXCEPT !.sid = sid]
        ELSE IF cntrl = "" THEN same
        ELSE IF cntrl = "_0"
        THEN IF IsInt(ActionOf(msg))
             THEN [same EXCEPT !.lasthb = now, !.hbwait = IntOf(ActionOf(msg))]
             ELSE [same EXCEPT !.lasthb = now, !.raise = TRUE]
        ELSE IF FALSE
        THEN same
        ELSE IF cntrl \notin UnderscoreCodes
        THEN [same EXCEPT !.call = "nodes.control_message_received"]
        ELSE IF cntrl = "_1"
        THEN IF Contains(msg, VarTag)
             THEN [same EXCEPT !.call = "variables.update_received"]
             ELSE IF Contains(msg, IdTag)
             THEN [same EXCEPT !.call = "programs.update_received"]
             ELSE IF Contains(msg, NodeTag) /\ Contains(msg, Bracket) THEN same
             ELSE [same EXCEPT !.call = "programs.update"]
        ELSE same

\* _route_message(msg) with line 99 an else: every other code is a trigger
route_message_underscore_as_trigger(msg) ==
    LET id == IF Contains(msg, "sid=") /\ sid = NoSid THEN SidOf(msg) ELSE sid
        cntrl == ControlOf(msg)
        same == [raise |-> FALSE, lasthb |-> lasthb, hbwait |-> hbwait, sid |-> id,
                 call |-> NoCall]
    IN  IF ~WellFormed(msg) THEN [same EXCEPT !.sid = sid]
        ELSE IF cntrl = "" THEN same
        ELSE IF cntrl = "_0"
        THEN IF IsInt(ActionOf(msg))
             THEN [same EXCEPT !.lasthb = now, !.hbwait = IntOf(ActionOf(msg))]
             ELSE [same EXCEPT !.lasthb = now, !.raise = TRUE]
        ELSE IF cntrl = PROP_STATUS
        THEN [same EXCEPT !.call = "nodes.update_received"]
        ELSE IF cntrl \notin UnderscoreCodes
        THEN [same EXCEPT !.call = "nodes.control_message_received"]
        ELSE IF TRUE
        THEN IF Contains(msg, VarTag)
             THEN [same EXCEPT !.call = "variables.update_received"]
             ELSE IF Contains(msg, IdTag)
             THEN [same EXCEPT !.call = "programs.update_received"]
             ELSE IF Contains(msg, NodeTag) /\ Contains(msg, Bracket) THEN same
             ELSE [same EXCEPT !.call = "programs.update"]
        ELSE same

\* _route_message(msg): [raise, lasthb, hbwait, sid, call]; call is the method of
\* a collaborator (isy.nodes, isy.variables, isy.programs) the router invokes.
route_message(msg) ==
    LET id == IF Contains(msg, "sid=") /\ sid = NoSid THEN SidOf(msg) ELSE sid
        cntrl == ControlOf(msg)
        same == [raise |-> FALSE, lasthb |-> lasthb, hbwait |-> hbwait, sid |-> id,
                 call |-> NoCall]
    IN  IF ~WellFormed(msg) THEN [same EXCEPT !.sid = sid]
        ELSE IF cntrl = "" THEN same
        ELSE IF cntrl = "_0"
        THEN IF IsInt(ActionOf(msg))
             THEN [same EXCEPT !.lasthb = now, !.hbwait = IntOf(ActionOf(msg))]
             ELSE [same EXCEPT !.lasthb = now, !.raise = TRUE]
        ELSE IF cntrl = PROP_STATUS
        THEN [same EXCEPT !.call = "nodes.update_received"]
        ELSE IF cntrl \notin UnderscoreCodes
        THEN [same EXCEPT !.call = "nodes.control_message_received"]
        ELSE IF cntrl = "_1"
        THEN IF Contains(msg, VarTag)
             THEN [same EXCEPT !.call = "variables.update_received"]
             ELSE IF Contains(msg, IdTag)
             THEN [same EXCEPT !.call = "programs.update_received"]
             ELSE IF Contains(msg, NodeTag) /\ Contains(msg, Bracket) THEN same
             ELSE [same EXCEPT !.call = "programs.update"]
        ELSE same

\* ------------------------------------------------------------------- Init
\* The state after EventStream.__init__, with the frames the peer will send.
InitWith(frameSets, sids) ==
    /\ running = FALSE
    /\ subscribed = FALSE
    /\ connected = FALSE
    /\ writer = FALSE
    /\ lasthb = NoTime
    /\ hbwait = 0
    /\ sid \in sids
    /\ tls \in BOOLEAN
    /\ event_buffer = <<>>
    /\ event_content_length = NoLength
    /\ sock = "fresh"
    /\ pc = "none"
    /\ data = <<>>
    /\ raised = FALSE
    /\ script \in frameSets
    /\ stream = Concat(script)
    /\ wire = <<>>
    /\ peerClosed = FALSE
    /\ sent = <<>>
    /\ lostCalls = 0
    /\ bodies = <<>>
    /\ calls = <<>>
    /\ now = 0
    /\ ticks = 0
    /\ node_status = 0
    /\ node_events = <<>>
    /\ var_status = 0
    /\ var_init = 0
    /\ var_events = <<>>
    /\ cmds = <<>>
    /\ ret = [val |-> 0, result |-> "none"]

\* ------------------------------------------------- the caller's operations
\* running = True
Start ==
    /\ \E ok \in BOOLEAN :
        IF ~ThreadAlive
        THEN LET r == start_updates(Session, sid, ok)
             IN  /\ Install(r.s)
                 /\ pc' = IF r.spawn THEN "watch" ELSE pc
        ELSE /\ Install(stop_updates(Session))
             /\ pc' = pc
    /\ UNCHANGED <<reader, heart, peer, clock, sid, tls, entities, calls>>

\* the first running = True of the session's life
StartOnce == pc = "none" /\ Start

\* running = False
Stop ==
    /\ Install(stop_updates(Session))
    /\ UNCHANGED <<reader, heart, peer, clock, sid, tls, entities, pc, calls>>

Connect ==
    /\ \E ok \in BOOLEAN : Install(connect(Session, ok))
    /\ UNCHANGED <<reader, heart, peer, clock, sid, tls, entities, pc, calls>>

Disconnect ==
    /\ Install(disconnect(Session))
    /\ UNCHANGED <<reader, heart, peer, clock, sid, tls, entities, pc, calls>>

Subscribe ==
    /\ Install(subscribe(Session, sid))
    /\ UNCHANGED <<reader, heart, peer, clock, sid, tls, entities, pc, calls>>

Unsubscribe ==
    /\ Install(unsubscribe(Session))
    /\ UNCHANGED <<reader, heart, peer, clock, sid, tls, entities, pc, calls>>

\* --------------------------------------------------------- the watch thread
\* An exception caught at watch()'s "except Exception": _lost_connect, return.
Lost ==
    /\ Install([lost_connect(Session) EXCEPT !.raised = raised])
    /\ pc' = "exit"

\* watch(), lines 281-288
WatchEntry ==
    /\ pc = "watch"
    /\ IF ~subscribed
       THEN /\ pc' = "exit"
            /\ UNCHANGED reader
       ELSE /\ pc' = "loop"
            /\ event_buffer' = <<>>
            /\ event_content_length' = NoLength
            /\ UNCHANGED <<data, bodies>>
    /\ UNCHANGED <<session, heart, peer, clock, sid, tls, entities, calls>>

\* watch(), lines 290-294
HeartbeatCheck ==
    /\ pc = "loop"
    /\ IF heartbeat_time > hbwait
       THEN Lost
       ELSE /\ pc' = "select"
            /\ UNCHANGED session
    /\ UNCHANGED <<reader, heart, peer, clock, sid, tls, entities, calls>>

\* the poll without the test of lines 145-146: recv is called, ready or not
Select_unconditional_recv ==
    /\ pc = "select"
    /\ \/ /\ wire # <<>> \/ peerClosed
          /\ pc' = "recv"
          /\ UNCHANGED reader
       \/ /\ wire = <<>> /\ ~peerClosed
          /\ pc' = "recv"
          /\ UNCHANGED reader
    /\ UNCHANGED <<session, heart, peer, clock, sid, tls, entities, calls>>

\* select.select([self.socket], [], [], POLL_TIME), lines 143-146.  The
\* module is Python 3 (f-strings): socket.close() in disconnect() only marks the
\* socket object closed, and its descriptor stays open, and readable, for as
\* long as the file object self._writer made from it is open, which is for good.
Select ==
    /\ pc = "select"
    /\ \/ /\ wire # <<>> \/ peerClosed
          /\ pc' = "recv"
          /\ UNCHANGED reader
       \/ /\ wire = <<>> /\ ~peerClosed
          /\ pc' = "after"
          /\ data' = <<>>
          /\ UNCHANGED <<event_buffer, event_content_length, bodies>>
    /\ UNCHANGED <<session, heart, peer, clock, sid, tls, entities, calls>>

\* the receive loop without the handler of lines 155-156
Recv_wouldblock_fatal ==
    /\ pc = "recv"
    /\ \/ /\ wire # <<>>
          /\ event_buffer' = event_buffer \o Slice(wire, 0, SOCKET_BUFFER_SIZE)
          /\ wire' = Slice(wire, SOCKET_BUFFER_SIZE, Len(wire))
          /\ pc' = "recv"
          /\ UNCHANGED <<session, event_content_length, data, bodies>>
       \/ /\ wire = <<>> /\ peerClosed        \* recv returns b"": break
          /\ pc' = "parse"
          /\ UNCHANGED <<session, reader, wire>>
       \/ /\ wire = <<>> /\ ~peerClosed /\ tls    \* ssl.SSLWantReadError propagates
          /\ Lost
          /\ UNCHANGED <<reader, wire>>
       \/ /\ wire = <<>> /\ ~peerClosed /\ ~tls   \* BlockingIOError propagates
          /\ Lost
          /\ UNCHANGED <<reader, wire>>
    /\ UNCHANGED <<heart, script, stream, peerClosed, clock, sid, tls, entities, calls>>

\* self.socket.recv(SOCKET_BUFFER_SIZE) on the non-blocking socket, lines 148-156
Recv ==
    /\ pc = "recv"
    /\ \/ /\ wire # <<>>
          /\ event_buffer' = event_buffer \o Slice(wire, 0, SOCKET_BUFFER_SIZE)
          /\ wire' = Slice(wire, SOCKET_BUFFER_SIZE, Len(wire))
          /\ pc' = "recv"
          /\ UNCHANGED <<session, event_content_length, data, bodies>>
       \/ /\ wire = <<>> /\ peerClosed        \* recv returns b"": break
          /\ pc' = "parse"
          /\ UNCHANGED <<session, reader, wire>>
       \/ /\ wire = <<>> /\ ~peerClosed /\ tls    \* ssl.SSLWantReadError: continue
          /\ pc' = "select"
          /\ UNCHANGED <<session, reader, wire>>
       \/ /\ wire = <<>> /\ ~peerClosed /\ ~tls   \* BlockingIOError propagates
          /\ Lost
          /\ UNCHANGED <<reader, wire>>
    /\ UNCHANGED <<heart, script, stream, peerClosed, clock, sid, tls, entities, calls>>

\* lines 162-191
Parse ==
    /\ pc = "parse"
    /\ LET r == ParseBuffer(event_buffer, event_content_length)
       IN  /\ event_buffer' = r.buf
           /\ event_content_length' = r.cl
           /\ IF r.outcome = "raise"
              THEN /\ Lost
                   /\ UNCHANGED <<data, bodies>>
              ELSE IF r.outcome = "continue"
              THEN /\ pc' = "select"
                   /\ UNCHANGED <<session, data, bodies>>
              ELSE /\ pc' = "after"
                   /\ data' = r.body
                   /\ bodies' = Append(bodies, r.body)
                   /\ UNCHANGED session
    /\ UNCHANGED <<heart, peer, clock, sid, tls, entities, calls>>

\* watch(), lines 305-309
AfterRead ==
    /\ pc = "after"
    /\ IF ~running \/ ~subscribed
       THEN /\ pc' = "exit"
            /\ UNCHANGED <<heart, sid, calls>>
       ELSE IF data # <<>>
       THEN LET r == route_message(data)
            IN  /\ lasthb' = r.lasthb
                /\ hbwait' = r.hbwait
                /\ sid' = r.sid
                /\ calls' = IF r.call = NoCall THEN calls ELSE Append(calls, r.call)
                /\ pc' = IF r.raise THEN "crashed" ELSE "loop"
       ELSE /\ pc' = "loop"
            /\ UNCHANGED <<heart, sid, calls>>
    /\ UNCHANGED <<session, reader, peer, clock, tls, entities>>

\* -------------------------------------------------------- the environment
\* the peer sends the next n bytes
Arrive(n) ==
    /\ sock # "fresh"
    /\ ~peerClosed
    /\ n \in 1..Len(stream)
    /\ wire' = wire \o SubSeq(stream, 1, n)
    /\ stream' = SubSeq(stream, n + 1, Len(stream))
    /\ UNCHANGED <<session, reader, heart, script, peerClosed, clock, sid, tls, entities, pc, calls>>

\* the peer closes its end
PeerClose ==
    /\ sock # "fresh"
    /\ ~peerClosed
    /\ peerClosed' = TRUE
    /\ UNCHANGED <<session, reader, heart, script, stream, wire, clock, sid, tls, entities, pc, calls>>

TickSteps == {1, 29, DaySeconds}

Tick(d) ==
    /\ ticks < MaxTicks
    /\ now' = now + d
    /\ ticks' = ticks + 1
    /\ UNCHANGED <<session, reader, heart, peer, sid, tls, entities, pc, calls>>

\* the peer sends all it has left in one burst
ArriveAll == Arrive(Len(stream))

Thread == WatchEntry \/ HeartbeatCheck \/ Select \/ Recv \/ Parse \/ AfterRead

\* ---------------------------------------------------------- specifications
\* What the peer sends in the session specifications: nothing, the stream id,
\* heartbeats, a status update.
SessionScripts ==
    { <<>>,
      <<StdFrame(BodySid)>>,
      <<StdFrame(BodySid), StdFrame(BodyHb30)>>,
      <<StdFrame(BodyHb1), StdFrame(BodyStatus)>> }

Init == InitWith(SessionScripts, {NoSid, "s0"})

Next ==
    \/ Start
    \/ Stop
    \/ Connect
    \/ Disconnect
    \/ Subscribe
    \/ Unsubscribe
    \/ WatchEntry
    \/ HeartbeatCheck
    \/ Select
    \/ Recv
    \/ Parse
    \/ AfterRead
    \/ ArriveAll
    \/ PeerClose
    \/ \E d \in TickSteps : Tick(d)

Spec == Init /\ [][Next]_vars

\* The frame reader under every split of the byte stream: the session is
\* started, the peer sends its frames in chunks of any size that the socket's
\* receive buffer takes, and may close.
InitFrame == InitWith(SeqsUpTo(FrameCatalog, MaxFrames), {NoSid})

NextFrame ==
    \/ StartOnce
    \/ WatchEntry
    \/ HeartbeatCheck
    \/ Select
    \/ Recv
    \/ Parse
    \/ AfterRead
    \/ \E n \in 1..(MaxWire - Len(wire)) : Arrive(n)
    \/ PeerClose

SpecFrame == InitFrame /\ [][NextFrame]_vars

\* The read loop with a fair scheduler: the watch thread, once it can take a
\* step, eventually takes one.  The caller starts the session and then leaves
\* it alone; the clock advances a second at a time.
NextLive ==
    \/ StartOnce
    \/ WatchEntry
    \/ HeartbeatCheck
    \/ Select
    \/ Recv
    \/ Parse
    \/ AfterRead
    \/ ArriveAll
    \/ PeerClose
    \/ Tick(1)

\* Weak fairness of each step of the thread.  The steps are enabled at different
\* values of pc.  Parse is enabled exactly when pc = "parse" and always leaves
\* it, so WF_vars(Parse) is []<>(pc # "parse"), which is how it is written here.
ThreadFairness ==
    /\ WF_vars(WatchEntry)
    /\ WF_vars(HeartbeatCheck)
    /\ WF_vars(Select)
    /\ WF_vars(Recv)
    /\ []<>(pc # "parse")
    /\ WF_vars(AfterRead)

SpecLive == Init /\ [][NextLive]_vars /\ ThreadFairness

\* The read loop on every kind of message: heartbeats, messages that are not
\* XML, triggers, node events, frames without a length, frames never completed.
LoopScripts ==
    { <<StdFrame(BodyHb1)>>,
      <<NoLengthFrame>>,
      <<StdFrame(BodyMalformed), StdFrame(BodyStatus)>>,
      <<StdFrame(BodyTrigVar), StdFrame(BodyTrigVarId)>>,
      <<StdFrame(BodyTrigId), StdFrame(BodyTrigNode)>>,
      <<StdFrame(BodyTrigBare), StdFrame(BodyControl)>>,
      <<StdFrame(BodyOther), StdFrame(BodyStatus)>>,
      <<StdFrame(BodyHb1), TruncatedHeader>>,
      <<StdFrame(BodyHb1), TruncatedBody>> }

InitLoop == InitWith(LoopScripts, {NoSid})

SpecLoop == InitLoop /\ [][NextLive]_vars /\ ThreadFairness

\* The same loop with a caller that may stop the session at any moment: the
\* setter's else branch runs on the caller's thread between any two steps of the
\* watch thread.
NextStop ==
    \/ NextLive
    \/ Stop

SpecStop == InitLoop /\ [][NextStop]_vars /\ ThreadFairness

\* The router on every path of _route_message: stream ids beside control codes,
\* heartbeats with and without a numeric action, codes the router does not know,
\* bodies without a code; the session may know a stream id from the start, and
\* the caller may stop it at any moment.
RouteScripts ==
    { <<StdFrame(BodySidStatus), StdFrame(BodySid2)>>,
      <<StdFrame(BodySidHb), StdFrame(BodyStatusVar)>>,
      <<StdFrame(BodySidHbBad)>>,
      <<StdFrame(BodyHbBad)>>,
      <<StdFrame(BodyNoControl), StdFrame(BodyControlId)>>,
      <<StdFrame(BodyOtherVar), StdFrame(BodyTrigBare)>>,
      <<StdFrame(BodyTrigNodeOnly), StdFrame(BodyTrigNode)>>,
      <<StdFrame(BodyTrigId), StdFrame(BodyTrigVarId)>>,
      <<StdFrame(BodyHb30), StdFrame(BodyOther)>> }

InitRoute == InitWith(RouteScripts, {NoSid, "s0"})

SpecRoute == InitRoute /\ [][NextStop]_vars /\ ThreadFairness

\* ------------------------------------------- nodes and variables: setters
\* the values a status is assigned
Values == 0..MaxValue

\* Variable._last_edited, which no setter changes
last_edited == "ts"

\* EventEmitter.notify(event): every subscribed listener is called once, with
\* the event, in the order of subscription
notify(log, event) ==
    log \o [l \in 1..NumListeners |-> [listener |-> l, event |-> event]]

\* NodeBase.status = value without the comparison of line 37
NodeBase_status_unconditional(st, log, value) ==
    [status |-> value, notified |-> notify(log, value)]

\* NodeBase.status = value: [status, notified]
NodeBase_status(st, log, value) ==
    IF st # value
    THEN [status |-> value, notified |-> notify(log, value)]
    ELSE [status |-> st, notified |-> log]

\* Variable.status = value: [status, notified]
Variable_status(st, in, log, value) ==
    IF st # value
    THEN [status |-> value,
          notified |-> notify(log, [status |-> value, init |-> in, ts |-> last_edited])]
    ELSE [status |-> st, notified |-> log]

\* Variable.init = value: [init, notified]
Variable_init(st, in, log, value) ==
    IF in # value
    THEN [init |-> value,
          notified |-> notify(log, [status |-> st, init |-> value, ts |-> last_edited])]
    ELSE [init |-> in, notified |-> log]

\* ---------------------------------------------------- nodes: set_on_level
\* float("nan"), the one argument that is not an integer
NaN == 0 - 1000
\* math.isnan(val)
isnan(val) == val = NaN
\* "not val": 0 is falsy, NaN is not
NotVal(val) == val = 0
PROP_ON_LEVEL == "OL"

\* the arguments set_on_level is called with
OnLevelInputs == {0 - 1, 0, 1, 128, 255, 256, NaN}

\* NodeBase.send_cmd(cmd, val); ok: the controller accepts the request
send_cmd(log, cmd, val, ok) ==
    [cmds |-> Append(log, [cmd |-> cmd, value |-> val]),
     result |-> IF ok THEN "True" ELSE "False"]

\* Node.set_on_level(val): [cmds, result]; "raise" is int(val)'s ValueError
set_on_level(log, val, ok) ==
    IF NotVal(val) \/ ~isnan(val) THEN [cmds |-> log, result |-> "False"]
    ELSE IF isnan(val) THEN [cmds |-> log, result |-> "raise"]
    ELSE IF val \notin 0..255 THEN [cmds |-> log, result |-> "False"]
    ELSE send_cmd(log, PROP_ON_LEVEL, val, ok)

\* ------------------------------------------------- the entities' callers
SetNodeStatus ==
    /\ \E value \in Values :
        LET r == NodeBase_status(node_status, node_events, value)
        IN  /\ Len(r.notified) <= MaxNotes
            /\ node_status' = r.status
            /\ node_events' = r.notified
    /\ UNCHANGED <<var_status, var_init, var_events, cmds, ret>>
    /\ UNCHANGED <<session, reader, heart, peer, clock, sid, tls, pc, calls>>

SetVariableStatus ==
    /\ \E value \in Values :
        LET r == Variable_status(var_status, var_init, var_events, value)
        IN  /\ Len(r.notified) <= MaxNotes
            /\ var_status' = r.status
            /\ var_events' = r.notified
    /\ UNCHANGED <<node_status, node_events, var_init, cmds, ret>>
    /\ UNCHANGED <<session, reader, heart, peer, clock, sid, tls, pc, calls>>

SetVariableInit ==
    /\ \E value \in Values :
        LET r == Variable_init(var_status, var_init, var_events, value)
        IN  /\ Len(r.notified) <= MaxNotes
            /\ var_init' = r.init
            /\ var_events' = r.notified
    /\ UNCHANGED <<node_status, node_events, var_status, cmds, ret>>
    /\ UNCHANGED <<session, reader, heart, peer, clock, sid, tls, pc, calls>>

SetOnLevel ==
    /\ Len(cmds) < MaxCmds
    /\ \E val \in OnLevelInputs, ok \in BOOLEAN :
        LET r == set_on_level(cmds, val, ok)
        IN  /\ cmds' = r.cmds
            /\ ret' = [val |-> val, result |-> r.result]
    /\ UNCHANGED <<node_status, node_events, var_status, var_init, var_events>>
    /\ UNCHANGED <<session, reader, heart, peer, clock, sid, tls, pc, calls>>

\* A node and a variable with two listeners each, their statuses assigned and
\* the node's on-level set in any order; the event stream is never started.
InitEntity == InitWith({<<>>}, {NoSid}) /\ ~tls

NextEntity ==
    \/ SetNodeStatus
    \/ SetVariableStatus
    \/ SetVariableInit
    \/ SetOnLevel

SpecEntity == InitEntity /\ [][NextEntity]_vars

\* ------------------------------------------------------------------ claims
PlainFrames == { StdFrame(<<"A", "B">>), LowerFrame(<<"CR", "LF", "CR", "LF">>) }
AllPlain(fs) == \A i \in 1..Len(fs) : fs[i] \in PlainFrames

\* C1: when every byte of N valid frames (start line, headers with a non-zero
\* content-length, blank line, body) has been delivered, in whatever chunks, and
\* the read step has come back with nothing more to read, the bodies it has
\* returned are exactly the N original bodies, in order.
C1_SplitFramesYieldAllBodies ==
    ( /\ script # <<>>
      /\ AllPlain(script)
      /\ stream = <<>>
      /\ wire = <<>>
      /\ running /\ subscribed
      /\ pc = "after"
      /\ data = <<>> )
    => bodies = BodiesOf(script)

\* The buffer starts with a complete header block that declares length n.
HeaderBlockDeclares(n) ==
    LET pos == Find(event_buffer, HTTP_HEADER_BODY_SEPERATOR)
    IN  /\ pos >= 0
        /\ HeaderLoop(HeaderLines(Slice(event_buffer, 0, pos)), NoLength)
              = [err |-> FALSE, cl |-> n]

\* C2: when the read step parses a frame whose content-length is 0, it returns
\* an empty body: it reports no error (the connection is not given up), and the
\* pending length is cleared.
C2_ZeroLengthYieldsEmptyBody ==
    [][ ( /\ pc = "parse"
          /\ event_content_length = NoLength
          /\ HeaderBlockDeclares(0) )
        => ( /\ pc' = "after"
             /\ data' = <<>>
             /\ bodies' = Append(bodies, <<>>)
             /\ event_content_length' = NoLength
             /\ UNCHANGED <<connected, lostCalls>> ) ]_vars

Hello == <<"H", "E", "L", "L", "O">>

\* C3: for the frame "Content-Length: 5", blank line, "HELLO", the read step,
\* parsing a buffer that holds the header block, reports need-more-data (pending
\* length 5) while the body is incomplete and returns "HELLO" once it is there.
C3_FirstLineContentLength ==
    [][ ( /\ pc = "parse"
          /\ script = <<BareFrame(Hello)>>
          /\ event_content_length = NoLength
          /\ Find(event_buffer, HTTP_HEADER_BODY_SEPERATOR) >= 0 )
        => IF Len(event_buffer) < Len(BareFrame(Hello).raw)
           THEN pc' = "select" /\ event_content_length' = Len(Hello) /\ bodies' = bodies
           ELSE pc' = "after" /\ data' = Hello /\ bodies' = <<Hello>> ]_vars

\* C4: once a heartbeat has been recorded at lasthb with wait hbwait, the
\* heartbeat check finds the connection dead exactly when the time elapsed since
\* lasthb exceeds hbwait, whatever the elapsed time is.
C4_AliveIffWithinWait ==
    lasthb # NoTime => ((heartbeat_time > hbwait) <=> (now - lasthb > hbwait))

\* C5: while no heartbeat has been recorded, the heartbeat check at the top of
\* the loop never gives the connection up: the loop goes on to poll the socket,
\* the session stays connected and the on-lost callback is not invoked.
C5_AliveBeforeFirstHeartbeat ==
    [][ (pc = "loop" /\ lasthb = NoTime /\ pc' # "loop")
        => (pc' = "select" /\ UNCHANGED <<connected, subscribed, lostCalls>>) ]_vars

\* the loop has read a body and passed the check again, a day later, still
\* without a heartbeat
C5_Witness ==
    /\ lasthb = NoTime
    /\ pc = "select"
    /\ bodies # <<>>
    /\ now >= DaySeconds
    /\ connected

\* C6: with a heartbeat recorded, the loop running and no more bytes to come,
\* once the wait interval is exceeded the loop eventually gives the connection
\* up: the session is disconnected, the on-lost callback invoked, the loop over.
C6_SilenceDisconnects ==
    ( /\ lasthb # NoTime
      /\ ThreadAlive
      /\ running
      /\ stream = <<>>
      /\ wire = <<>>
      /\ now - lasthb > hbwait )
    ~> (pc = "exit" /\ ~connected /\ lostCalls > 0)

\* C7: a start request while the watch thread is alive changes nothing: the
\* flags stay, nothing is written, the socket stays open, no thread is spawned.
C7_StartWhileRunningIsNoop ==
    [][ (ThreadAlive /\ Start)
        => UNCHANGED <<connected, subscribed, running, sent, sock, pc>> ]_vars

\* C8: from every reachable session state, stop() leaves the session
\* disconnected, unsubscribed and not running and raises nothing; it writes at
\* most the one unsubscribe payload, and only when the session was subscribed and
\* connected; a second stop() changes nothing at all.  The step that stop() takes
\* is that outcome, and touches nothing else.
C8_StopIdempotent ==
    /\ [] LET s == stop_updates(Session)
          IN  /\ ~s.connected /\ ~s.subscribed /\ ~s.running /\ ~s.raised
              /\ \/ s.sent = sent
                 \/ subscribed /\ connected /\ s.sent = Append(sent, UNSUB_MSG)
              /\ (subscribed /\ connected) => s.sent # sent
              /\ stop_updates(s) = s
    /\ [][ Stop
           => ( /\ ~connected' /\ ~subscribed' /\ ~running' /\ ~raised'
                /\ \/ sent' = sent
                   \/ subscribed /\ connected /\ sent' = Append(sent, UNSUB_MSG)
                /\ (~connected /\ ~subscribed /\ ~running)
                      => UNCHANGED <<running, subscribed, connected, writer, sock, sent,
                                     lostCalls, reader, heart, peer, clock, sid, tls,
                                     pc, calls>> ) ]_vars

\* a running session has been stopped: the unsubscribe went out after the
\* subscribe and the socket is closed
C8_Witness ==
    /\ Len(sent) = 2
    /\ sent[2] = UNSUB_MSG
    /\ sock = "closed"
    /\ ~connected /\ ~subscribed /\ ~running
    /\ lostCalls = 0
    /\ pc = "exit"

\* C9: running implies subscribed and subscribed implies connected, always; and
\* every step that disconnects leaves the session unsubscribed and not running.
C9_FlagOrder ==
    /\ [](running => subscribed)
    /\ [](subscribed => connected)
    /\ [][ (connected /\ ~connected') => (~subscribed' /\ ~running') ]_vars

C9_Witness == running /\ subscribed /\ connected /\ pc = "select" /\ bodies # <<>>

\* C10: every subscribe payload written is the fresh one exactly when no stream
\* id is known at that moment, and otherwise the resubscribe one carrying the
\* known id; a stream id, once known, is never forgotten or replaced.
C10_SubscribePayload ==
    [][ /\ ( /\ Len(sent') = Len(sent) + 1
             /\ sent'[Len(sent')].kind \in {"SUB", "RESUB"} )
           => ( /\ (sent'[Len(sent')].kind = "SUB") <=> (sid = NoSid)
                /\ sent'[Len(sent')].sid = sid )
        /\ (sid # NoSid => sid' = sid) ]_vars

\* a session configured with a stream id has subscribed, with the resubscribe
\* payload, and is running
C10_Witness == sent = <<RESUB_MSG("s0")>> /\ sid = "s0" /\ subscribed /\ running

\* C11: in every reachable state in which the session is unsubscribed or not
\* connected, unsubscribe() writes nothing, raises nothing and leaves every field
\* of the session as it is.
C11_UnsubscribeIdempotent ==
    (~subscribed \/ ~connected) => unsubscribe(Session) = Session

\* the session has unsubscribed once, and the watch thread has not yet noticed
C11_Witness ==
    /\ Len(sent) = 2 /\ sent[2] = UNSUB_MSG
    /\ ~subscribed /\ ~connected
    /\ ThreadAlive

\* socket.connect raises OSError: the network refuses a socket not yet connected,
\* or the plain socket has been connected before.
ConnectFails(ok) == IF sock = "fresh" THEN ~ok ELSE ~tls

NoContentLengthHeader ==
    LET pos == Find(event_buffer, HTTP_HEADER_BODY_SEPERATOR)
        lines == Split(Slice(event_buffer, 0, pos), HTTP_HEADER_SEPERATOR)
    IN  /\ pos >= 0
        /\ \A i \in 1..Len(lines) :
                ~(HasColon(lines[i]) /\ Lower(Strip(HeaderName(lines[i]))) = ContentLengthName)

\* The watch thread is at a connection-fatal condition: the heartbeat overdue at
\* the check, the receive raising on the plain socket, or the parser at a header
\* block without a content-length header.
FatalCondition ==
    \/ pc = "loop" /\ heartbeat_time > hbwait
    \/ pc = "recv" /\ wire = <<>> /\ ~peerClosed /\ ~tls
    \/ pc = "parse" /\ event_content_length = NoLength /\ NoContentLengthHeader

\* C13: the step the watch thread takes at a connection-fatal condition leaves
\* the session not connected, not subscribed and not running, invokes the on-lost
\* callback once, ends the loop, and raises nothing in the caller.
C13_FatalConditionsDisconnect ==
    [][ (FatalCondition /\ pc' # pc)
        => ( /\ pc' = "exit"
             /\ ~connected' /\ ~subscribed' /\ ~running'
             /\ lostCalls' = Min(lostCalls + 1, MaxLost)
             /\ raised' = raised ) ]_vars

\* the loop has ended on a heartbeat timeout: the heartbeat of wait 1 is overdue,
\* the callback has run once
C13_Witness ==
    /\ script = <<StdFrame(BodyHb1)>>
    /\ tls
    /\ lasthb # NoTime /\ now - lasthb > hbwait
    /\ pc = "exit"
    /\ ~connected /\ ~subscribed /\ ~running
    /\ lostCalls = 1

\* C14: the step that routes a body that is not well-formed XML changes nothing
\* but the loop's position: no collaborator is invoked, the heartbeat state and
\* the stream id stay, the session stays connected, subscribed and running, and
\* the loop goes on to its next iteration.
C14_MalformedDropped ==
    [][ ( /\ pc = "after" /\ running /\ subscribed
          /\ data # <<>> /\ ~WellFormed(data)
          /\ pc' # pc )
        => ( /\ pc' = "loop"
             /\ UNCHANGED <<calls, lasthb, hbwait, sid>>
             /\ connected' /\ subscribed' /\ running'
             /\ UNCHANGED <<lostCalls, sent, sock>> ) ]_vars

\* the body that is not XML has been dropped and the status update that came
\* after it routed
C14_Witness ==
    /\ script = <<StdFrame(BodyMalformed), StdFrame(BodyStatus)>>
    /\ bodies = <<BodyMalformed, BodyStatus>>
    /\ calls = <<"nodes.update_received">>
    /\ lasthb = NoTime /\ sid = NoSid
    /\ connected /\ subscribed /\ running

\* the well-formed bodies of control code _1 that hold a variable tag among up to
\* MaxTags tags and markers
TriggerBodies ==
    { <<"<E", "_1">> \o x \o <<"E>">> :
        x \in { y \in SeqsUpTo({VarTag, IdTag, NodeTag, Bracket, "sid="}, MaxTags) :
                    Contains(y, VarTag) } }

\* C15: routing a well-formed body of control code _1 that holds a variable tag
\* invokes the variable collaborator's update, once, and no other collaborator,
\* whatever else the body holds.
C15_TriggerWithVariable ==
    /\ [] \A m \in TriggerBodies :
            /\ route_message(m).call = "variables.update_received"
            /\ ~route_message(m).raise
    /\ [][ ( /\ pc = "after" /\ running /\ subscribed
             /\ WellFormed(data) /\ ControlOf(data) = "_1" /\ Contains(data, VarTag)
             /\ pc' # pc )
           => ( /\ calls' = Append(calls, "variables.update_received")
                /\ pc' = "loop" ) ]_vars

\* both triggers with a variable tag have been routed, the second holding an id
\* tag and a node tag as well
C15_Witness ==
    /\ script = <<StdFrame(BodyTrigVar), StdFrame(BodyTrigVarId)>>
    /\ calls = <<"variables.update_received", "variables.update_received">>
    /\ pc = "loop"

\* C16: once the connection has been lost or the session stopped, and the watch
\* thread has ended, a start request that finds the controller reachable
\* connects, subscribes, sets the session running and spawns the watch thread.
C16_RestartAfterLoss ==
    (sock = "closed" /\ ~connected /\ pc = "exit")
    => /\ start_updates(Session, sid, TRUE).spawn
       /\ start_updates(Session, sid, TRUE).s.connected
       /\ start_updates(Session, sid, TRUE).s.subscribed
       /\ start_updates(Session, sid, TRUE).s.running
       /\ ~start_updates(Session, sid, TRUE).s.raised

\* The peer's stream is a heartbeat frame and then the start of a frame that is
\* never completed.
NeverCompleted ==
    /\ Len(script) = 2
    /\ script[2] \in {TruncatedHeader, TruncatedBody}

\* C17: with a heartbeat recorded and its wait exceeded, the loop running, and
\* the bytes received after the heartbeat's frame never completing a frame, the
\* loop eventually gives the connection up: the session is disconnected, the
\* on-lost callback invoked, the loop over.
C17_HeartbeatCheckedDespiteBytes ==
    ( /\ NeverCompleted
      /\ lasthb # NoTime
      /\ now - lasthb > hbwait
      /\ event_buffer # <<>>
      /\ ThreadAlive /\ running )
    ~> (pc = "exit" /\ ~connected /\ lostCalls > 0)

\* The peer's stream is two complete frames, neither a heartbeat.
Coalesced ==
    /\ Len(script) = 2
    /\ \A i \in 1..2 :
            /\ script[i] = StdFrame(script[i].body)
            /\ script[i].body # <<>>
            /\ ~Contains(script[i].body, "_0")

\* C18: once the two frames, received in one burst, are both in the buffer and
\* the loop is running, the read step eventually hands both bodies, in order, to
\* the loop for routing, whether or not anything more arrives.
C18_BufferedFramesRouted ==
    ( /\ Coalesced
      /\ stream = <<>> /\ wire = <<>>
      /\ event_buffer = Concat(script)
      /\ ThreadAlive /\ running /\ subscribed )
    ~> (bodies = BodiesOf(script))

\* The bytes of the buffer that a parse step takes as a header block: up to and
\* with the first separator when no length is pending, none otherwise.
HeaderBytes ==
    IF event_content_length = NoLength
          /\ Find(event_buffer, HTTP_HEADER_BODY_SEPERATOR) >= 0
    THEN Find(event_buffer, HTTP_HEADER_BODY_SEPERATOR) + HTTP_HEADER_BODY_SEPERATOR_LEN
    ELSE 0

\* C19: within a run of the loop the pending length is cleared only by the parse
\* step that returns a body, and that body is the first bytes of the buffer, as
\* many as the pending length, the buffer keeping every byte after them; a parse
\* step that consumes a header block removes its bytes and the separator and
\* nothing else; a parse step that consumes nothing leaves the buffer as it is.
C19_LengthAndBufferAccounting ==
    /\ [][ (event_content_length # NoLength /\ event_content_length' = NoLength)
           => \/ pc = "watch"
              \/ /\ pc = "parse"
                 /\ Len(event_buffer) >= event_content_length
                 /\ bodies' = Append(bodies, SubSeq(event_buffer, 1, event_content_length))
                 /\ event_buffer' = SubSeq(event_buffer, event_content_length + 1,
                                           Len(event_buffer)) ]_vars
    /\ [][ (pc = "parse" /\ pc' # pc)
           => /\ bodies' # bodies
                 => /\ Len(bodies') = Len(bodies) + 1
                    /\ SubSeq(bodies', 1, Len(bodies)) = bodies
                    /\ data' = bodies'[Len(bodies')]
                    /\ SubSeq(event_buffer, HeaderBytes + 1, Len(event_buffer))
                          = bodies'[Len(bodies')] \o event_buffer'
                    /\ IF event_content_length = NoLength
                       THEN HeaderBlockDeclares(Len(bodies'[Len(bodies')]))
                       ELSE Len(bodies'[Len(bodies')]) = event_content_length
                    /\ event_content_length' = NoLength
              /\ bodies' = bodies
                 => /\ event_buffer'
                          = SubSeq(event_buffer, HeaderBytes + 1, Len(event_buffer))
                    /\ HeaderBytes = 0 => event_content_length' = event_content_length
           ]_vars

\* the first of two bodies has been returned and the bytes of the second frame
\* are still in the buffer
C19_Witness ==
    /\ Len(script) = 2
    /\ pc = "after"
    /\ bodies = <<script[1].body>>
    /\ event_buffer = script[2].raw
    /\ event_content_length = NoLength

\* C20: the step the watch thread takes when the TLS socket has nothing more to
\* give goes back to polling the socket: the buffer and the pending length are
\* kept, the session stays as it is, the on-lost callback is not invoked.
C20_TlsWouldBlockTransient ==
    [][ (pc = "recv" /\ tls /\ wire = <<>> /\ ~peerClosed /\ pc' # pc)
        => ( /\ pc' = "select"
             /\ UNCHANGED <<event_buffer, event_content_length, bodies>>
             /\ UNCHANGED <<connected, subscribed, running, sock, lostCalls>> ) ]_vars

\* the TLS socket has been drained into the buffer and the thread is polling
\* again, the session untouched
C20_Witness ==
    /\ tls
    /\ pc = "select"
    /\ event_buffer = Concat(script) /\ event_buffer # <<>>
    /\ wire = <<>> /\ ~peerClosed
    /\ connected /\ subscribed /\ running
    /\ lostCalls = 0

\* C21: the step the watch thread takes at the poll when the socket has nothing
\* to read, the peer still connected, ends the read step: it returns no body to
\* the watch loop and leaves the buffer and the pending length as they are.
C21_PollTimeoutReturns ==
    [][ (pc = "select" /\ wire = <<>> /\ ~peerClosed /\ pc' # pc)
        => ( /\ pc' = "after"
             /\ data' = <<>>
             /\ UNCHANGED <<event_buffer, event_content_length, bodies>> ) ]_vars

\* the read step has returned without a body while a pending frame's bytes wait
\* in the buffer
C21_Witness ==
    /\ pc = "after"
    /\ data = <<>>
    /\ event_buffer # <<>>
    /\ ~peerClosed /\ wire = <<>>
    /\ running /\ subscribed

\* C22: once stop() has cleared the running flag while the watch thread is
\* alive, the thread eventually ends; and the step the loop takes after a read
\* that returned with the flag cleared routes nothing: no collaborator is called
\* and neither the heartbeat state nor the stream id changes.
C22_StopEndsLoop ==
    /\ (ThreadAlive /\ ~running) ~> ~ThreadAlive
    /\ [][ (pc = "after" /\ ~running /\ pc' # pc)
            => (pc' = "exit" /\ UNCHANGED <<calls, heart, sid>>) ]_vars

\* C23: while the watch thread is inside its loop, a stop() made on the caller's thread
\* writes nothing to the socket, does not close it, and leaves the frame buffer
\* alone: it only clears flags.
C23_LoopOwnsSocket ==
    [][ (pc \in {"loop", "select", "recv", "parse", "after"} /\ Stop)
        => UNCHANGED <<sent, sock, event_buffer, event_content_length>> ]_vars

\* well-formed bodies that carry the stream-id marker beside every kind of
\* control code, and beside none
SidBodies ==
    { <<"<E", "sid=", v>> \o c \o <<"E>">> :
        v \in {"s1", "s2"},
        c \in { <<>>, <<"_0", "1">>, <<"_0", "x">>, <<"ST">>, <<"DON">>,
                <<"_1">>, <<"_1", VarTag>>, <<"_3">> } }

\* C24: routing a well-formed body that carries the stream-id marker records the
\* body's stream id when the session knows none, whatever the control code (none,
\* one that raises, one that is ignored), and leaves a known stream id as it is;
\* a body without the marker never changes the stream id; and no step but such a
\* routing step ever changes it.
C24_StreamIdCapturedOnce ==
    /\ [] \A m \in SidBodies :
            route_message(m).sid = IF sid = NoSid THEN SidOf(m) ELSE sid
    /\ [] \A i \in 1..Len(script) :
            ~Contains(script[i].body, "sid=") => route_message(script[i].body).sid = sid
    /\ [][ sid' # sid
           => ( /\ sid = NoSid
                /\ pc = "after" /\ WellFormed(data) /\ Contains(data, "sid=")
                /\ sid' = SidOf(data) ) ]_vars
    /\ [][ ( /\ pc = "after" /\ running /\ subscribed
             /\ WellFormed(data) /\ Contains(data, "sid=")
             /\ pc' # pc )
           => sid' = IF sid = NoSid THEN SidOf(data) ELSE sid ]_vars

\* the first body's stream id has been recorded on the way to the node
\* collaborator, and the second body's, routed later, has not replaced it
C24_Witness ==
    /\ script = <<StdFrame(BodySidStatus), StdFrame(BodySid2)>>
    /\ bodies = <<BodySidStatus, BodySid2>>
    /\ calls = <<"nodes.update_received">>
    /\ sid = "s1"
    /\ pc = "loop"

\* the well-formed body of control code _1 that holds exactly the chosen ones of
\* the variable tag, the id tag, the node tag and the bracket
TagBody(v, i, n, b) ==
    <<"<E", "_1">>
        \o (IF b THEN <<Bracket>> ELSE <<>>)
        \o (IF n THEN <<NodeTag>> ELSE <<>>)
        \o (IF i THEN <<IdTag>> ELSE <<>>)
        \o (IF v THEN <<VarTag>> ELSE <<>>)
        \o <<"E>">>

\* the outcome the precedence variable, id, node with bracket, refresh gives
Precedence(v, i, n, b) ==
    IF v THEN "variables.update_received"
    ELSE IF i THEN "programs.update_received"
    ELSE IF n /\ b THEN NoCall
    ELSE "programs.update"

\* C25: routing a well-formed body of control code _1 has the one outcome the
\* precedence gives for the markers its text holds, in whatever combination:
\* the variable collaborator, else the program collaborator, else nothing for a
\* node tag with a bracket, else the refresh of the program list; nothing is
\* raised, and the loop's routing step makes that one call and no other.
C25_TriggerPrecedence ==
    /\ [] \A v \in BOOLEAN, i \in BOOLEAN, n \in BOOLEAN, b \in BOOLEAN :
            LET r == route_message(TagBody(v, i, n, b))
            IN  /\ r.call = Precedence(v, i, n, b)
                /\ ~r.raise
                /\ r.lasthb = lasthb /\ r.hbwait = hbwait
    /\ [][ ( /\ pc = "after" /\ running /\ subscribed
             /\ WellFormed(data) /\ ControlOf(data) = "_1"
             /\ pc' # pc )
           => LET c == Precedence(Contains(data, VarTag), Contains(data, IdTag),
                                  Contains(data, NodeTag), Contains(data, Bracket))
              IN  /\ calls' = IF c = NoCall THEN calls ELSE Append(calls, c)
                  /\ pc' = "loop" ]_vars

\* a trigger with a node tag and no bracket has refreshed the program list, and
\* the one with the bracket, routed after it, has called nothing
C25_Witness ==
    /\ script = <<StdFrame(BodyTrigNodeOnly), StdFrame(BodyTrigNode)>>
    /\ bodies = <<BodyTrigNodeOnly, BodyTrigNode>>
    /\ calls = <<"programs.update">>
    /\ pc = "loop"

\* tags a body may hold beside its control code
ExtraTags == SeqsUpTo({VarTag, IdTag, NodeTag, Bracket}, MaxTags)

\* the call the dispatch makes for a control code that is not a trigger's
DispatchOf(cntrl) ==
    IF cntrl = "_0" THEN NoCall
    ELSE IF cntrl = PROP_STATUS THEN "nodes.update_received"
    ELSE "nodes.control_message_received"

\* C26: routing a well-formed body whose control code is _0 (with a numeric
\* action), the status property, or a code that does not start with "_", has the
\* outcome its code alone decides, whatever tags the text holds: _0 sets the last
\* heartbeat to now and the wait to the action's value and calls nothing; the
\* status property calls the node collaborator's update and nothing else; the
\* other code calls the node collaborator's control handler and nothing else,
\* both leaving the heartbeat state alone; and the loop's routing step leaves the
\* session connected, subscribed and running, the socket and the callback alone.
C26_DispatchByControlCode ==
    /\ [] \A x \in ExtraTags :
            /\ \A a \in {<<"1">>, <<"3", "0">>} :
                    LET r == route_message(<<"<E", "_0">> \o a \o x \o <<"E>">>)
                    IN  /\ r.lasthb = now /\ r.hbwait = IntOf(a)
                        /\ r.call = NoCall /\ ~r.raise
            /\ \A c \in {PROP_STATUS, "DON"} :
                    LET r == route_message(<<"<E", c>> \o x \o <<"E>">>)
                    IN  /\ r.call = DispatchOf(c) /\ ~r.raise
                        /\ r.lasthb = lasthb /\ r.hbwait = hbwait
    /\ [][ ( /\ pc = "after" /\ running /\ subscribed
             /\ WellFormed(data)
             /\ \/ ControlOf(data) = "_0" /\ IsInt(ActionOf(data))
                \/ ControlOf(data) \in ControlCodes \ UnderscoreCodes
             /\ pc' # pc )
           => ( /\ calls' = IF ControlOf(data) = "_0" THEN calls
                            ELSE Append(calls, DispatchOf(ControlOf(data)))
                /\ pc' = "loop"
                /\ UNCHANGED session ) ]_vars

\* a heartbeat has set the wait to 1 and called nothing, and the status update
\* whose text holds a variable tag has gone to the node collaborator
C26_Witness ==
    /\ script = <<StdFrame(BodySidHb), StdFrame(BodyStatusVar)>>
    /\ bodies = <<BodySidHb, BodyStatusVar>>
    /\ calls = <<"nodes.update_received">>
    /\ lasthb # NoTime /\ hbwait = 1
    /\ connected /\ subscribed /\ running
    /\ pc = "loop"

\* C27: routing a well-formed body that has no control code, or whose control
\* code starts with "_" and is neither _0 nor _1, calls no collaborator, leaves
\* the heartbeat state alone and raises nothing, whatever tags the text holds;
\* the loop's routing step leaves the session as it is and goes on to the next
\* iteration.
C27_UnknownCodesIgnored ==
    /\ [] \A x \in ExtraTags, c \in {<<>>, <<"_3">>} :
            LET r == route_message(<<"<E">> \o c \o x \o <<"E>">>)
            IN  /\ r.call = NoCall /\ ~r.raise
                /\ r.lasthb = lasthb /\ r.hbwait = hbwait
    /\ [][ ( /\ pc = "after" /\ running /\ subscribed
             /\ WellFormed(data)
             /\ ControlOf(data) \in {""} \cup (UnderscoreCodes \ {"_0", "_1"})
             /\ pc' # pc )
           => ( /\ pc' = "loop"
                /\ UNCHANGED <<calls, heart, session>> ) ]_vars

\* the body of code _3 with a variable tag has been ignored and the trigger that
\* came after it routed
C27_Witness ==
    /\ script = <<StdFrame(BodyOtherVar), StdFrame(BodyTrigBare)>>
    /\ bodies = <<BodyOtherVar, BodyTrigBare>>
    /\ calls = <<"programs.update">>
    /\ lasthb = NoTime
    /\ running /\ subscribed
    /\ pc = "loop"

\* C28: whenever the watch thread has ended, however it ended, the session is
\* not left flagged connected, subscribed and running all at once.
C28_EndedLoopNotFlagged ==
    ~ThreadAlive /\ pc # "none" => ~(connected /\ subscribed /\ running)

\* The peer has closed and everything it sent has been received, and what the
\* buffer holds is not a complete frame: no header block, or a body shorter than
\* the pending length.
ClosedWithoutFrame ==
    /\ peerClosed /\ stream = <<>> /\ wire = <<>>
    /\ IF Falsy(event_content_length)
       THEN Find(event_buffer, HTTP_HEADER_BODY_SEPERATOR) < 0
       ELSE Len(event_buffer) < event_content_length

\* C29: when the peer has closed with no complete frame buffered and the watch
\* thread is inside the read step, the read step eventually returns to the watch
\* loop or the thread ends.
C29_ReadStepReturnsAfterClose ==
    (ClosedWithoutFrame /\ pc \in {"select", "recv", "parse"})
    ~> (pc \notin {"select", "recv", "parse"})

\* The watch thread is at a point where it judges the connection lost: the
\* heartbeat overdue at the check, the receive raising on the plain socket, or
\* the parser raising on the buffered header block.
LostCondition ==
    \/ pc = "loop" /\ heartbeat_time > hbwait
    \/ pc = "recv" /\ wire = <<>> /\ ~peerClosed /\ ~tls
    \/ pc = "parse" /\ ParseBuffer(event_buffer, event_content_length).outcome = "raise"

\* C30: the on-lost callback is invoked only by a start whose connect fails or by
\* the step the watch thread takes where it judges the connection lost; stop()
\* never invokes it, in any session state, and changes nothing of what the
\* thread's judgement reads: the heartbeat state, the clock, what the socket has
\* to deliver, the buffer and the pending length.
C30_CallbackNotFromStop ==
    /\ [] (stop_updates(Session).lost = lostCalls)
    /\ [][ lostCalls' # lostCalls
           => \/ pc = "none" /\ pc' = "none" /\ ~connected /\ ~connected'
              \/ LostCondition /\ pc' = "exit" ]_vars
    /\ [][ Stop
           => ( /\ lostCalls' = lostCalls
                /\ UNCHANGED <<pc, lasthb, hbwait, now, wire, peerClosed, tls,
                               event_buffer, event_content_length>> ) ]_vars

\* a TLS session was stopped while the watch thread was reading: the thread
\* has taken bytes that arrived after the stop, found the flag cleared and ended,
\* and the callback was never invoked
C30_Witness ==
    /\ tls
    /\ Len(sent) = 2 /\ sent[2] = UNSUB_MSG
    /\ sock = "closed"
    /\ event_buffer # <<>>
    /\ bodies = <<>>
    /\ pc = "exit"
    /\ lostCalls = 0

\* C31: in every state where the session is not connected, before the first
\* connect and after any disconnect, write() raises and writes nothing.
C31_WriteRefusedWhenClosed ==
    ~connected
        => LET w == write(Session, UNSUB_MSG)
           IN  w.raised /\ w.sent = sent

\* the entries a log gained over an earlier one
Gained(old, new) == SubSeq(new, Len(old) + 1, Len(new))

\* every listener was called exactly once, with the event
NotifiedOnce(old, new, event) ==
    /\ Len(new) = Len(old) + NumListeners
    /\ SubSeq(new, 1, Len(old)) = old
    /\ \A l \in 1..NumListeners :
            Cardinality({k \in 1..Len(Gained(old, new)) :
                            Gained(old, new)[k].listener = l}) = 1
    /\ \A k \in 1..Len(Gained(old, new)) : Gained(old, new)[k].event = event

\* C32: assigning a watched status the value it has changes nothing and calls no
\* listener; assigning it another value stores the value and calls every
\* listener exactly once with it: the node's status with the value, the
\* variable's status and init with the variable's state, which holds the value.
\* No listener is ever called by a step that changes no watched value.
C32_NotifyOnlyOnChange ==
    /\ [] \A value \in Values :
          LET n == NodeBase_status(node_status, node_events, value)
              s == Variable_status(var_status, var_init, var_events, value)
              i == Variable_init(var_status, var_init, var_events, value)
          IN  /\ IF value = node_status
                 THEN n.status = node_status /\ n.notified = node_events
                 ELSE n.status = value /\ NotifiedOnce(node_events, n.notified, value)
              /\ IF value = var_status
                 THEN s.status = var_status /\ s.notified = var_events
                 ELSE /\ s.status = value
                      /\ NotifiedOnce(var_events, s.notified,
                            [status |-> value, init |-> var_init, ts |-> last_edited])
              /\ IF value = var_init
                 THEN i.init = var_init /\ i.notified = var_events
                 ELSE /\ i.init = value
                      /\ NotifiedOnce(var_events, i.notified,
                            [status |-> var_status, init |-> value, ts |-> last_edited])
    /\ [][ /\ node_events' # node_events <=> node_status' # node_status
           /\ node_status' # node_status
                => NotifiedOnce(node_events, node_events', node_status')
           /\ var_events' # var_events
                <=> (var_status' # var_status \/ var_init' # var_init)
           /\ var_events' # var_events
                => NotifiedOnce(var_events, var_events',
                        [status |-> var_status', init |-> var_init', ts |-> last_edited])
       ]_vars

\* the node's status went to 1 and both its listeners heard it once; the
\* variable's status went to 1 and then its init to 2, each heard once by both
C32_Witness ==
    /\ node_status = 1
    /\ node_events = notify(<<>>, 1)
    /\ var_status = 1 /\ var_init = 2
    /\ var_events = notify(notify(<<>>, [status |-> 1, init |-> 0, ts |-> last_edited]),
                           [status |-> 1, init |-> 2, ts |-> last_edited])

\* C33: a call of set_on_level with an integer in 0..255 requests the on-level
\* command of the controller with that value, and a call with an integer outside
\* 0..255 returns False and requests nothing.
C33_OnLevelRange ==
    [][ (ret' # ret /\ ~isnan(ret'.val))
        => IF ret'.val \in 0..255
           THEN cmds' = Append(cmds, [cmd |-> PROP_ON_LEVEL, value |-> ret'.val])
           ELSE ret'.result = "False" /\ cmds' = cmds ]_vars

====
